---- MODULE Spec2Model ----
(***************************************************************************)
(* Juristream: the tasks page (TasksPage), the cases page (CasesPage) and  *)
(* the agenda page (AgendaPage), together with the application store they  *)
(* call through useAppData().  The store (hooks/useAppData) is modelled    *)
(* from the specification's sections 3 and 4; the pages are modelled from  *)
(* their source.  Toasts, modals and form state carry no entity data and   *)
(* are left out of the state.                                              *)
(***************************************************************************)
EXTENDS Integers, Sequences, FiniteSets, Bags

\* ------------------------------------------------------------------ bounds
MaxEntities == 3     \* tasks and cases created in one run, together
MaxEvents == 2       \* appointments and tasks on the agenda, together
NumDays == 2         \* calendar days on which dates fall
MaxTimers == 2       \* connect attempts in flight at once
MaxUpdates == 3      \* updates appended and file reads started in one run

\* --------------------------------------------------------------- constants
NoTime == -1
NoTask == [id |-> 0]
Views == {"ativos", "lixeira", "arquivados"}
TaskStatus == {"PENDENTE", "FAZENDO", "CONCLUIDA"}
TaskTypes == {"Tarefa", "Prazo"}
Filters == TaskStatus \cup {"all"}
AppointmentType == {"AUDIENCIA", "REUNIAO", "SUSTENTACAO_ORAL", "PRAZO_INTERNO", "OUTRO"}

\* Dates are counted in time slots; a calendar day (Date.toDateString) is
\* SlotsPerDay consecutive slots.
SlotsPerDay == 2
Times == 0..(NumDays * SlotsPerDay - 1)
toDateString(date) == date \div SlotsPerDay
MaxNow == NumDays * SlotsPerDay - 1

\* file.size > 5 * 1024 * 1024
MaxAttachmentBytes == 5 * 1024 * 1024
FileSizes == {0, MaxAttachmentBytes, MaxAttachmentBytes + 1}
NoAttachment == -1

VARIABLES
    tasks,            \* useAppData().tasks: sequence of Task records, insertion order
    cases,            \* useAppData().cases: sequence of Case records, insertion order
    appointments,     \* useAppData().appointments: sequence of Appointment records
    settings,         \* useAppData().settings: [googleCalendarConnected]
    selectedTask,     \* TasksPage state: the Task object captured by handleSelectTask, or NoTask
    connectTimers,    \* number of setTimeout callbacks of handleConnectGoogleCalendar in flight
    fileReads,        \* FileReader reads in flight: bag of [taskId, size]
    now,              \* the clock read by new Date()
    idCount,          \* ids handed out so far: [task, case, appointment, update]
    lastCall,         \* name of the last store operation or handler that ran
    lastError         \* its outcome: "none" or the failure kind it reported

storeVars == <<tasks, cases, appointments, settings, idCount>>
pageVars == <<selectedTask, connectTimers, fileReads>>
vars == <<tasks, cases, appointments, settings, selectedTask, connectTimers,
          fileReads, now, idCount, lastCall, lastError>>

\* ------------------------------------------------------- sequence helpers
Range(s) == {s[i] : i \in 1..Len(s)}

\* Array.prototype.filter
RECURSIVE Filter(_, _)
Filter(s, keep) ==
    IF s = <<>> THEN <<>>
    ELSE IF Head(s).id \in keep THEN <<Head(s)>> \o Filter(Tail(s), keep)
    ELSE Filter(Tail(s), keep)

Ids(coll) == {coll[i].id : i \in 1..Len(coll)}
Has(coll, id) == id \in Ids(coll)
Get(coll, id) == coll[CHOOSE i \in 1..Len(coll) : coll[i].id = id]

\* ------------------------------------------------ LifecycleStore (spec 4.1)
IsActive(e) == ~e.isDeleted /\ ~e.isArchived
IsArchived(e) == ~e.isDeleted /\ e.isArchived
IsTrashed(e) == e.isDeleted

canSoftDelete(coll, id) == Has(coll, id) /\ ~Get(coll, id).isDeleted
softDelete(coll, id, t) ==
    IF canSoftDelete(coll, id)
    THEN [i \in 1..Len(coll) |->
            IF coll[i].id = id
            THEN [coll[i] EXCEPT !.isDeleted = TRUE, !.deletedAt = t]
            ELSE coll[i]]
    ELSE coll

\* variant of restore that also resets the archive flag
restoreClearsArchive(coll, id) ==
    [i \in 1..Len(coll) |->
        IF coll[i].id = id /\ coll[i].isDeleted
        THEN [coll[i] EXCEPT !.isDeleted = FALSE, !.deletedAt = NoTime,
                             !.isArchived = FALSE, !.archivedAt = NoTime]
        ELSE coll[i]]

canRestore(coll, id) == Has(coll, id) /\ Get(coll, id).isDeleted
restore(coll, id) ==
    IF canRestore(coll, id)
    THEN [i \in 1..Len(coll) |->
            IF coll[i].id = id
            THEN [coll[i] EXCEPT !.isDeleted = FALSE, !.deletedAt = NoTime]
            ELSE coll[i]]
    ELSE coll

\* variant of toggleArchive without the isDeleted == false precondition
toggleArchiveAnyState(coll, id, t) ==
    [i \in 1..Len(coll) |->
        IF coll[i].id = id
        THEN [coll[i] EXCEPT !.isArchived = ~coll[i].isArchived,
                             !.archivedAt = IF coll[i].isArchived THEN NoTime ELSE t]
        ELSE coll[i]]

canToggleArchive(coll, id) == Has(coll, id) /\ ~Get(coll, id).isDeleted
toggleArchive(coll, id, t) ==
    IF canToggleArchive(coll, id)
    THEN [i \in 1..Len(coll) |->
            IF coll[i].id = id
            THEN [coll[i] EXCEPT !.isArchived = ~coll[i].isArchived,
                                 !.archivedAt = IF coll[i].isArchived THEN NoTime ELSE t]
            ELSE coll[i]]
    ELSE coll

\* variant of permanentlyDelete without the Trashed precondition
permanentlyDeleteAnyState(coll, id) == Filter(coll, Ids(coll) \ {id})

canPermanentlyDelete(coll, id) == Has(coll, id) /\ Get(coll, id).isDeleted
permanentlyDelete(coll, id) ==
    IF canPermanentlyDelete(coll, id)
    THEN Filter(coll, Ids(coll) \ {id})
    ELSE coll

Outcome(ok) == IF ok THEN "none" ELSE "PreconditionViolation"

\* window.confirm answered with Cancel: the handler returns without a call
confirmDeclined ==
    /\ lastCall' = "confirmDeclined"
    /\ lastError' = "none"
    /\ UNCHANGED <<storeVars, pageVars, now>>

\* ----------------------------------------------------- store: construction
NewTask(id, due, status, type) ==
    [id |-> id, isDeleted |-> FALSE, isArchived |-> FALSE,
     deletedAt |-> NoTime, archivedAt |-> NoTime,
     status |-> status, type |-> type, dueDate |-> due, updates |-> <<>>]

NewCase(id) ==
    [id |-> id, isDeleted |-> FALSE, isArchived |-> FALSE,
     deletedAt |-> NoTime, archivedAt |-> NoTime]

addTask(due, status, type) ==
    /\ idCount.task + idCount.case < MaxEntities
    /\ tasks' = Append(tasks, NewTask(idCount.task + 1, due, status, type))
    /\ idCount' = [idCount EXCEPT !.task = @ + 1]
    /\ lastCall' = "addTask"
    /\ lastError' = "none"
    /\ UNCHANGED <<cases, appointments, settings, pageVars, now>>

addCase ==
    /\ idCount.task + idCount.case < MaxEntities
    /\ cases' = Append(cases, NewCase(idCount.case + 1))
    /\ idCount' = [idCount EXCEPT !.case = @ + 1]
    /\ lastCall' = "addCase"
    /\ lastError' = "none"
    /\ UNCHANGED <<tasks, appointments, settings, pageVars, now>>

\* ------------------------------------------------- store: task operations
softDeleteTask(id) ==
    /\ tasks' = softDelete(tasks, id, now)
    /\ lastCall' = "softDeleteTask"
    /\ lastError' = Outcome(canSoftDelete(tasks, id))

restoreTask(id) ==
    /\ tasks' = restore(tasks, id)
    /\ lastCall' = "restoreTask"
    /\ lastError' = Outcome(canRestore(tasks, id))

permanentlyDeleteTask(id) ==
    /\ tasks' = permanentlyDelete(tasks, id)
    /\ lastCall' = "permanentlyDeleteTask"
    /\ lastError' = Outcome(canPermanentlyDelete(tasks, id))

\* toggleTaskArchive is exported by the store; TasksPage destructures it but
\* no handler of the page calls it, so it is issued here by the store's
\* other callers, for any task currently in the store.
toggleTaskArchive(id) ==
    /\ tasks' = toggleArchive(tasks, id, now)
    /\ lastCall' = "toggleTaskArchive"
    /\ lastError' = Outcome(canToggleArchive(tasks, id))
    /\ UNCHANGED <<cases, appointments, settings, idCount, pageVars, now>>

\* ------------------------------------------------- store: case operations
softDeleteCase(id) ==
    /\ cases' = softDelete(cases, id, now)
    /\ lastCall' = "softDeleteCase"
    /\ lastError' = Outcome(canSoftDelete(cases, id))

restoreCase(id) ==
    /\ cases' = restore(cases, id)
    /\ lastCall' = "restoreCase"
    /\ lastError' = Outcome(canRestore(cases, id))

toggleCaseArchive(id) ==
    /\ cases' = toggleArchive(cases, id, now)
    /\ lastCall' = "toggleCaseArchive"
    /\ lastError' = Outcome(canToggleArchive(cases, id))

permanentlyDeleteCase(id) ==
    /\ cases' = permanentlyDelete(cases, id)
    /\ lastCall' = "permanentlyDeleteCase"
    /\ lastError' = Outcome(canPermanentlyDelete(cases, id))

\* ------------------------------------------------- UpdateLog (spec 4.2)
\* addTaskUpdate(taskId, {text, attachment...}): a new Update with a fresh
\* id and timestamp = now is appended to the task's updates; size is the
\* attachment's size, or NoAttachment for a text update.
addTaskUpdate(taskId, size) ==
    /\ tasks' = [i \in 1..Len(tasks) |->
                    IF tasks[i].id = taskId
                    THEN [tasks[i] EXCEPT !.updates = Append(@,
                            [id |-> idCount.update + 1, timestamp |-> now,
                             attachmentSize |-> size])]
                    ELSE tasks[i]]
    /\ idCount' = [idCount EXCEPT !.update = @ + 1]
    /\ lastCall' = "addTaskUpdate"
    /\ lastError' = "none"

\* the clock advances
Tick ==
    /\ now < MaxNow
    /\ now' = now + 1
    /\ UNCHANGED <<storeVars, pageVars, lastCall, lastError>>

\* ------------------------------------------------------------ sorting
\* Array.prototype.sort with the comparator (a, b) => key(a) - key(b): a
\* stable sort (ECMAScript 2019), here by insertion after the last element
\* whose key is not greater.
InsertByKey(acc, e) ==
    LET p == Cardinality({j \in 1..Len(acc) : acc[j].k <= e.k})
    IN SubSeq(acc, 1, p) \o <<e>> \o SubSeq(acc, p + 1, Len(acc))

\* s sorted by keys, where keys[i] is the comparator's key of s[i]
SortByKey(s, keys) ==
    LET f[i \in 0..Len(s)] ==
            IF i = 0 THEN <<>>
            ELSE InsertByKey(f[i - 1], [k |-> keys[i], v |-> s[i]])
    IN [i \in 1..Len(s) |-> f[Len(s)][i].v]

\* new Date(x).getTime() of each element's dueDate
DueKeys(s) == [i \in 1..Len(s) |-> s[i].dueDate]

\* ------------------------------------------------------------ TasksPage
activeTasks == SelectSeq(tasks, LAMBDA t : ~t.isDeleted /\ ~t.isArchived)
trashedTasks == SelectSeq(tasks, LAMBDA t : t.isDeleted)
archivedTasks == SelectSeq(tasks, LAMBDA t : ~t.isDeleted /\ t.isArchived)

tasksToDisplaySource(view) ==
    IF view = "lixeira" THEN trashedTasks
    ELSE IF view = "arquivados" THEN archivedTasks
    ELSE activeTasks

filteredTasks(view, filter) ==
    LET sorted == SortByKey(tasksToDisplaySource(view), DueKeys(tasksToDisplaySource(view)))
    IN IF view # "ativos" \/ filter = "all" THEN sorted
       ELSE SelectSeq(sorted, LAMBDA t : t.status = filter)

\* onClick of a row of the task list
handleSelectTask(task) ==
    /\ selectedTask' = task
    /\ lastCall' = "handleSelectTask"
    /\ lastError' = "none"
    /\ UNCHANGED <<storeVars, connectTimers, fileReads, now>>

\* the "Mover para lixeira" button of the detail panel, shown while the
\* captured task object is not deleted
TasksPage_handleSoftDelete(taskId, confirmed) ==
    /\ selectedTask # NoTask
    /\ ~selectedTask.isDeleted
    /\ taskId = selectedTask.id
    /\ IF confirmed
       THEN /\ softDeleteTask(taskId)
            /\ selectedTask' = IF selectedTask.id = taskId THEN NoTask ELSE selectedTask
            /\ UNCHANGED <<cases, appointments, settings, idCount, connectTimers,
                           fileReads, now>>
       ELSE confirmDeclined

\* the "Restaurar Tarefa" button, shown while the captured task object is deleted
TasksPage_restoreButton ==
    /\ selectedTask # NoTask
    /\ selectedTask.isDeleted
    /\ restoreTask(selectedTask.id)
    /\ UNCHANGED <<cases, appointments, settings, idCount, pageVars, now>>

\* the "Excluir Permanentemente" button, shown while the captured task object is deleted
TasksPage_permanentlyDeleteButton ==
    /\ selectedTask # NoTask
    /\ selectedTask.isDeleted
    /\ permanentlyDeleteTask(selectedTask.id)
    /\ UNCHANGED <<cases, appointments, settings, idCount, pageVars, now>>

\* a handler that returns at its first guard
handlerReturned(name) ==
    /\ lastCall' = name
    /\ lastError' = "none"
    /\ UNCHANGED <<storeVars, pageVars, now>>

\* the "Enviar" button; hasText is newUpdateText.trim() being non-empty
handleAddUpdate(hasText) ==
    IF selectedTask = NoTask \/ ~hasText
    THEN handlerReturned("handleAddUpdate")
    ELSE /\ addTaskUpdate(selectedTask.id, NoAttachment)
         /\ UNCHANGED <<cases, appointments, settings, pageVars, now>>

\* variant of handleFileChange that starts the read before the size check
handleFileChangeReadsFirst(hasFile, size) ==
    IF hasFile /\ selectedTask # NoTask
    THEN /\ fileReads' = fileReads (+) SetToBag({[taskId |-> selectedTask.id, size |-> size]})
         /\ lastCall' = "handleFileChange"
         /\ lastError' = IF size > MaxAttachmentBytes THEN "AttachmentTooLarge" ELSE "none"
         /\ UNCHANGED <<storeVars, selectedTask, connectTimers, now>>
    ELSE handlerReturned("handleFileChange")

\* variant of handleFileChange that rejects from the limit on (>=)
handleFileChangeRejectsAtLimit(hasFile, size) ==
    IF hasFile /\ selectedTask # NoTask
    THEN IF size >= MaxAttachmentBytes
         THEN /\ lastCall' = "handleFileChange"
              /\ lastError' = "AttachmentTooLarge"
              /\ UNCHANGED <<storeVars, pageVars, now>>
         ELSE /\ fileReads' = fileReads (+) SetToBag({[taskId |-> selectedTask.id, size |-> size]})
              /\ lastCall' = "handleFileChange"
              /\ lastError' = "none"
              /\ UNCHANGED <<storeVars, selectedTask, connectTimers, now>>
    ELSE handlerReturned("handleFileChange")

\* onChange of the file input; hasFile is e.target.files[0] being present
handleFileChange(hasFile, size) ==
    IF hasFile /\ selectedTask # NoTask
    THEN IF size > MaxAttachmentBytes
         THEN /\ lastCall' = "handleFileChange"
              /\ lastError' = "AttachmentTooLarge"
              /\ UNCHANGED <<storeVars, pageVars, now>>
         ELSE /\ fileReads' = fileReads (+) SetToBag({[taskId |-> selectedTask.id, size |-> size]})
              /\ lastCall' = "handleFileChange"
              /\ lastError' = "none"
              /\ UNCHANGED <<storeVars, selectedTask, connectTimers, now>>
    ELSE handlerReturned("handleFileChange")

\* reader.onloadend of one of the reads in flight
readerLoadEnd(read) ==
    /\ BagIn(read, fileReads)
    /\ addTaskUpdate(read.taskId, read.size)
    /\ fileReads' = fileReads (-) SetToBag({read})
    /\ UNCHANGED <<cases, appointments, settings, selectedTask, connectTimers, now>>

\* new Date(x).getTime() of each update's timestamp
TimestampKeys(s) == [i \in 1..Len(s) |-> s[i].timestamp]

\* variant of sortUpdates with the comparator reversed (b - a)
sortUpdatesNewestFirst(updates) ==
    SortByKey(updates, [i \in 1..Len(updates) |-> 0 - updates[i].timestamp])

\* selectedTask.updates.sort((a,b) => new Date(a.timestamp).getTime() - ...),
\* the order in which the detail panel lists the updates.  The sort is in
\* place; the clock never runs backwards, so the appended sequence is
\* already in timestamp order and the array is left as it was.
sortUpdates(updates) == SortByKey(updates, TimestampKeys(updates))

\* const today = new Date(); today.setHours(0,0,0,0)
today == toDateString(now) * SlotsPerDay

\* variant of isOverdue that compares with the clock, its time not zeroed
isOverdueAgainstNow(task) == task.dueDate < now /\ task.status # "CONCLUIDA"

\* deadline < today && task.status !== TaskStatus.CONCLUIDA
isOverdue(task) == task.dueDate < today /\ task.status # "CONCLUIDA"

\* ------------------------------------------------------------ CasesPage
activeCases == SelectSeq(cases, LAMBDA c : ~c.isDeleted /\ ~c.isArchived)
trashedCases == SelectSeq(cases, LAMBDA c : c.isDeleted)
\* variant of archivedCases that does not exclude deleted cases
archivedCasesAnyDeleted == SelectSeq(cases, LAMBDA c : c.isArchived)
archivedCases == SelectSeq(cases, LAMBDA c : ~c.isDeleted /\ c.isArchived)

casesToDisplay(view) ==
    IF view = "lixeira" THEN trashedCases
    ELSE IF view = "arquivados" THEN archivedCases
    ELSE activeCases

\* The handlers below are passed to every CaseCard of casesToDisplay; which
\* of them a card offers is decided inside CaseCard, so each may be called
\* with the id of any displayed case.
CasesPage_handleSoftDelete(caseId, confirmed) ==
    IF confirmed
    THEN /\ softDeleteCase(caseId)
         /\ UNCHANGED <<tasks, appointments, settings, idCount, pageVars, now>>
    ELSE confirmDeclined

handlePermanentDelete(caseId, confirmed) ==
    IF confirmed
    THEN /\ permanentlyDeleteCase(caseId)
         /\ UNCHANGED <<tasks, appointments, settings, idCount, pageVars, now>>
    ELSE confirmDeclined

handleRestore(caseId) ==
    /\ restoreCase(caseId)
    /\ UNCHANGED <<tasks, appointments, settings, idCount, pageVars, now>>

handleToggleArchive(caseId) ==
    /\ toggleCaseArchive(caseId)
    /\ UNCHANGED <<tasks, appointments, settings, idCount, pageVars, now>>

\* ------------------------------------------------------------ AgendaPage
addAppointment(date, type) ==
    /\ appointments' = Append(appointments,
            [id |-> idCount.appointment + 1, date |-> date, appointmentType |-> type])
    /\ idCount' = [idCount EXCEPT !.appointment = @ + 1]
    /\ lastCall' = "addAppointment"
    /\ lastError' = "none"
    /\ UNCHANGED <<tasks, cases, settings, pageVars, now>>

eventsFromAppointments ==
    [i \in 1..Len(appointments) |->
        [id |-> appointments[i].id, date |-> appointments[i].date,
         type |-> appointments[i].appointmentType,
         original |-> [kind |-> "appointment", id |-> appointments[i].id]]]

notDoneTasks == SelectSeq(tasks, LAMBDA t : t.status # "CONCLUIDA")

eventsFromTasks ==
    [i \in 1..Len(notDoneTasks) |->
        [id |-> notDoneTasks[i].id, date |-> notDoneTasks[i].dueDate,
         type |-> notDoneTasks[i].type,
         original |-> [kind |-> "task", id |-> notDoneTasks[i].id]]]

unifiedEvents == eventsFromAppointments \o eventsFromTasks

\* new Date(x).getTime() of each event's date
DateKeys(s) == [i \in 1..Len(s) |-> s[i].date]
DayKeys(s) == [i \in 1..Len(s) |-> toDateString(s[i].date)]

\* variant of sortBucket that compares the calendar days only
sortBucketByDayOnly(bucket) == SortByKey(bucket, DayKeys(bucket))

\* acc[eventDate].sort((a,b) => new Date(a.date).getTime() - new Date(b.date).getTime())
sortBucket(bucket) == SortByKey(bucket, DateKeys(bucket))

\* variant of eventsByDate keyed by the whole date, time of day included
eventsByDateKeyedByTime ==
    LET ev == unifiedEvents
        f[i \in 0..Len(ev)] ==
            IF i = 0 THEN [d \in {} |-> <<>>]
            ELSE LET acc == f[i - 1]
                     eventDate == ev[i].date
                     bucket == IF eventDate \in DOMAIN acc THEN acc[eventDate] ELSE <<>>
                 IN [d \in DOMAIN acc \cup {eventDate} |->
                        IF d = eventDate THEN sortBucket(Append(bucket, ev[i])) ELSE acc[d]]
    IN f[Len(ev)]

\* unifiedEvents.reduce: a map from the calendar day to its events
eventsByDate ==
    LET ev == unifiedEvents
        f[i \in 0..Len(ev)] ==
            IF i = 0 THEN [d \in {} |-> <<>>]
            ELSE LET acc == f[i - 1]
                     eventDate == toDateString(ev[i].date)
                     bucket == IF eventDate \in DOMAIN acc THEN acc[eventDate] ELSE <<>>
                 IN [d \in DOMAIN acc \cup {eventDate} |->
                        IF d = eventDate THEN sortBucket(Append(bucket, ev[i])) ELSE acc[d]]
    IN f[Len(ev)]

\* useAppData().updateSettings: merges the given field into the record
updateSettings(connected) ==
    settings' = [settings EXCEPT !.googleCalendarConnected = connected]

\* the "Conectar com Google Calendar" button of the placeholder screen
handleConnectGoogleCalendar ==
    /\ ~settings.googleCalendarConnected
    /\ connectTimers < MaxTimers
    /\ connectTimers' = connectTimers + 1
    /\ lastCall' = "handleConnectGoogleCalendar"
    /\ lastError' = "none"
    /\ UNCHANGED <<storeVars, selectedTask, fileReads, now>>

\* variant of connectTimeout that opens the gate whatever the outcome
connectTimeoutAlwaysTrue(success) ==
    /\ connectTimers > 0
    /\ connectTimers' = connectTimers - 1
    /\ updateSettings(TRUE)
    /\ lastCall' = "connectTimeout"
    /\ lastError' = IF success THEN "none" ELSE "ConnectFailed"
    /\ UNCHANGED <<tasks, cases, appointments, idCount, selectedTask, fileReads, now>>

\* the setTimeout callback of handleConnectGoogleCalendar; success is
\* Math.random() > 0.3
connectTimeout(success) ==
    /\ connectTimers > 0
    /\ connectTimers' = connectTimers - 1
    /\ IF success THEN updateSettings(TRUE) ELSE updateSettings(FALSE)
    /\ lastCall' = "connectTimeout"
    /\ lastError' = IF success THEN "none" ELSE "ConnectFailed"
    /\ UNCHANGED <<tasks, cases, appointments, idCount, selectedTask, fileReads, now>>

\* the "Desconectar Google" button of the calendar screen
handleDisconnectGoogleCalendar ==
    /\ settings.googleCalendarConnected
    /\ updateSettings(FALSE)
    /\ lastCall' = "handleDisconnectGoogleCalendar"
    /\ lastError' = "none"
    /\ UNCHANGED <<tasks, cases, appointments, idCount, pageVars, now>>

\* variant of AgendaRender without the gate check
AgendaRenderNoGate == [screen |-> "calendar", buckets |-> eventsByDate]

\* what AgendaPage returns: the placeholder without any event while the
\* gate is closed, the calendar with the buckets otherwise
AgendaRender ==
    IF ~settings.googleCalendarConnected
    THEN [screen |-> "connect", buckets |-> <<>>]
    ELSE [screen |-> "calendar", buckets |-> eventsByDate]

\* ------------------------------------------------------- specification
Init ==
    /\ tasks = <<>>
    /\ cases = <<>>
    /\ appointments = <<>>
    /\ settings = [googleCalendarConnected |-> FALSE]
    /\ selectedTask = NoTask
    /\ connectTimers = 0
    /\ fileReads = EmptyBag
    /\ now = 0
    /\ idCount = [task |-> 0, case |-> 0, appointment |-> 0, update |-> 0]
    /\ lastCall = "none"
    /\ lastError = "none"

\* Lifecycle of tasks and cases, as driven by TasksPage and CasesPage.
Next ==
    \/ addTask(0, "PENDENTE", "Tarefa")
    \/ addCase
    \/ \E id \in Ids(tasks) : toggleTaskArchive(id)
    \/ \E view \in Views :
          \E task \in Range(filteredTasks(view, "all")) : handleSelectTask(task)
    \/ \E confirmed \in BOOLEAN :
          selectedTask # NoTask /\ TasksPage_handleSoftDelete(selectedTask.id, confirmed)
    \/ TasksPage_restoreButton
    \/ TasksPage_permanentlyDeleteButton
    \/ \E view \in Views : \E c \in Range(casesToDisplay(view)) :
          \/ \E confirmed \in BOOLEAN : CasesPage_handleSoftDelete(c.id, confirmed)
          \/ \E confirmed \in BOOLEAN : handlePermanentDelete(c.id, confirmed)
          \/ handleRestore(c.id)
          \/ handleToggleArchive(c.id)

Spec == Init /\ [][Next]_vars

\* The agenda: appointments and tasks are created and tasks are moved to
\* the trash from the tasks page, while the aggregation is recomputed from
\* the store.
AgendaTaskStatus == {"PENDENTE", "CONCLUIDA"}
AgendaAppointmentTypes == {"AUDIENCIA", "REUNIAO"}

NextAgenda ==
    \/ /\ Len(tasks) + Len(appointments) < MaxEvents
       /\ \E due \in Times, status \in AgendaTaskStatus, type \in TaskTypes :
             addTask(due, status, type)
    \/ /\ Len(tasks) + Len(appointments) < MaxEvents
       /\ \E date \in Times, type \in AgendaAppointmentTypes : addAppointment(date, type)
    \/ \E task \in Range(filteredTasks("ativos", "all")) : handleSelectTask(task)
    \/ selectedTask # NoTask /\ TasksPage_handleSoftDelete(selectedTask.id, TRUE)

SpecAgenda == Init /\ [][NextAgenda]_vars

\* The gate: connect attempts, their delayed outcome, and disconnect, over
\* whatever appointments and tasks exist.
NextGate ==
    \/ /\ Len(tasks) + Len(appointments) < MaxEvents
       /\ \E due \in Times : addTask(due, "PENDENTE", "Prazo")
    \/ /\ Len(tasks) + Len(appointments) < MaxEvents
       /\ \E date \in Times : addAppointment(date, "AUDIENCIA")
    \/ handleConnectGoogleCalendar
    \/ \E success \in BOOLEAN : connectTimeout(success)
    \/ handleDisconnectGoogleCalendar

SpecGate == Init /\ [][NextGate]_vars

\* The update thread of the tasks page: the store has loaded two tasks;
\* one is selected, text updates and attachments are added while the clock
\* advances or stands still (it need not advance more often than updates
\* are appended).
InitLog ==
    /\ tasks = <<NewTask(1, 0, "PENDENTE", "Tarefa"), NewTask(2, 0, "PENDENTE", "Prazo")>>
    /\ cases = <<>>
    /\ appointments = <<>>
    /\ settings = [googleCalendarConnected |-> FALSE]
    /\ selectedTask = NoTask
    /\ connectTimers = 0
    /\ fileReads = EmptyBag
    /\ now = 0
    /\ idCount = [task |-> 2, case |-> 0, appointment |-> 0, update |-> 0]
    /\ lastCall = "none"
    /\ lastError = "none"

NextLog ==
    \/ now + 1 < MaxUpdates /\ Tick
    \/ \E task \in Range(filteredTasks("ativos", "all")) : handleSelectTask(task)
    \/ /\ idCount.update + BagCardinality(fileReads) < MaxUpdates
       /\ \E hasText \in BOOLEAN : handleAddUpdate(hasText)
    \/ /\ idCount.update + BagCardinality(fileReads) < MaxUpdates
       /\ \E hasFile \in BOOLEAN, size \in FileSizes : handleFileChange(hasFile, size)
    \/ \E read \in BagToSet(fileReads) : readerLoadEnd(read)

SpecLog == InitLog /\ [][NextLog]_vars

\* The overdue flag of the task list: tasks with any due date and status,
\* listed while the clock advances.
NextOverdue ==
    \/ Tick
    \/ \E due \in Times, status \in TaskStatus : addTask(due, status, "Prazo")

SpecOverdue == Init /\ [][NextOverdue]_vars

\* ------------------------------------------------------------- claims
SameEntity(coll, coll2, id) == Has(coll2, id) /\ Get(coll2, id) = Get(coll, id)

\* C1: every entity of the store is in exactly one of the views Active,
\* Archived, Trashed computed by the pages: the three views of tasks, and
\* of cases, are pairwise disjoint and together hold the whole collection.
IsPartition(all, a, r, t) ==
    /\ Ids(a) \cap Ids(r) = {}
    /\ Ids(a) \cap Ids(t) = {}
    /\ Ids(r) \cap Ids(t) = {}
    /\ Ids(a) \cup Ids(r) \cup Ids(t) = Ids(all)
    /\ Len(a) + Len(r) + Len(t) = Len(all)

C1_VisibilityPartition ==
    /\ IsPartition(tasks, activeTasks, archivedTasks, trashedTasks)
    /\ IsPartition(cases, activeCases, archivedCases, trashedCases)

C1_Witness ==
    /\ \E t \in Range(tasks) : t.isDeleted /\ t.isArchived
    /\ \E c \in Range(cases) : c.isDeleted /\ c.isArchived

\* C2: an entity leaves the store only from the Trashed state, and a
\* permanent delete issued for an entity that is not Trashed, or for an id
\* that is not in the store, reports PreconditionViolation and changes
\* nothing; issued for a Trashed entity it removes that entity alone.
PermanentDeleteEffect(coll, coll2, id) ==
    IF Has(coll, id) /\ Get(coll, id).isDeleted
    THEN /\ Ids(coll2) = Ids(coll) \ {id}
         /\ \A j \in Ids(coll2) : SameEntity(coll, coll2, j)
         /\ lastError' = "none"
    ELSE /\ coll2 = coll
         /\ lastError' = "PreconditionViolation"

C2_Step ==
    /\ \A id \in Ids(tasks) \ Ids(tasks') : Get(tasks, id).isDeleted
    /\ \A id \in Ids(cases) \ Ids(cases') : Get(cases, id).isDeleted
    /\ TasksPage_permanentlyDeleteButton =>
          /\ PermanentDeleteEffect(tasks, tasks', selectedTask.id)
          /\ cases' = cases
    /\ \A id \in 1..MaxEntities :
          handlePermanentDelete(id, TRUE) =>
             /\ PermanentDeleteEffect(cases, cases', id)
             /\ tasks' = tasks

C2_PermanentDeleteOnlyFromTrash == [][C2_Step]_vars

\* a permanent delete was issued from the detail panel for a task that is in
\* the store and not Trashed, and it failed
C2_Witness ==
    /\ lastCall = "permanentlyDeleteTask"
    /\ lastError = "PreconditionViolation"
    /\ Has(tasks, selectedTask.id)
    /\ ~Get(tasks, selectedTask.id).isDeleted
    /\ Len(tasks) = 2

\* C3: softDelete and restore leave isArchived as it was: a restore of a
\* Trashed entity makes it Archived when its archive flag is set and Active
\* when it is not, and a soft delete makes the entity Trashed with its
\* archive flag kept.
KeepsArchiveFlag(coll, coll2) ==
    \A id \in Ids(coll) :
        /\ Has(coll2, id)
        /\ Get(coll2, id).isArchived = Get(coll, id).isArchived
        /\ Get(coll2, id).archivedAt = Get(coll, id).archivedAt

RestoreEffect(coll, coll2, id) ==
    (Has(coll, id) /\ Get(coll, id).isDeleted) =>
        /\ IsArchived(Get(coll2, id)) = Get(coll, id).isArchived
        /\ IsActive(Get(coll2, id)) = ~Get(coll, id).isArchived

SoftDeleteEffect(coll, coll2, id) ==
    (Has(coll, id) /\ ~Get(coll, id).isDeleted) =>
        /\ IsTrashed(Get(coll2, id))
        /\ Get(coll2, id).isArchived = Get(coll, id).isArchived

C3_Step ==
    /\ lastCall' \in {"softDeleteTask", "restoreTask"} => KeepsArchiveFlag(tasks, tasks')
    /\ lastCall' \in {"softDeleteCase", "restoreCase"} => KeepsArchiveFlag(cases, cases')
    /\ TasksPage_restoreButton => RestoreEffect(tasks, tasks', selectedTask.id)
    /\ \A id \in 1..MaxEntities :
          /\ handleRestore(id) => RestoreEffect(cases, cases', id)
          /\ CasesPage_handleSoftDelete(id, TRUE) => SoftDeleteEffect(cases, cases', id)
    /\ \A id \in 1..MaxEntities :
          TasksPage_handleSoftDelete(id, TRUE) => SoftDeleteEffect(tasks, tasks', id)

C3_ArchiveFlagSurvivesTrash == [][C3_Step]_vars

\* the only case of the store was archived, trashed and has just been
\* restored: it is Archived
C3_Witness ==
    /\ lastCall = "restoreCase"
    /\ lastError = "none"
    /\ Len(cases) = 1
    /\ IsArchived(cases[1])

\* C4: no event of the aggregation comes from a task that is Done, and
\* none from a task that is not Active (deleted or archived).
C4_OnlyActiveNotDoneTasks ==
    \A i \in 1..Len(unifiedEvents) :
        unifiedEvents[i].original.kind = "task" =>
            /\ Get(tasks, unifiedEvents[i].original.id).status # "CONCLUIDA"
            /\ IsActive(Get(tasks, unifiedEvents[i].original.id))

\* C5: the events of every per-day bucket are in non-decreasing order of
\* their date (day and time of day), whatever the order of the input; one
\* appointment and one later Pending task of the same day give the bucket
\* [appointment, task].
BucketOrdered(bucket) ==
    \A i, j \in 1..Len(bucket) : i < j => bucket[i].date <= bucket[j].date

C5_BucketsOrderedByTime ==
    /\ \A d \in DOMAIN eventsByDate : BucketOrdered(eventsByDate[d])
    /\ ( /\ Len(appointments) = 1
         /\ Len(tasks) = 1
         /\ tasks[1].status = "PENDENTE"
         /\ toDateString(appointments[1].date) = toDateString(tasks[1].dueDate)
         /\ appointments[1].date < tasks[1].dueDate )
       => eventsByDate[toDateString(tasks[1].dueDate)]
             = <<eventsFromAppointments[1], eventsFromTasks[1]>>

\* a task that is not Done falls on the day of an appointment, at an
\* earlier time: the bucket holds both and the sort has to reorder them
C5_Witness ==
    \E a \in Range(appointments), t \in Range(tasks) :
        /\ t.status # "CONCLUIDA"
        /\ toDateString(a.date) = toDateString(t.dueDate)
        /\ t.dueDate < a.date
        /\ Len(eventsByDate[toDateString(a.date)]) = 2

\* C6 as stated: a completed connect leaves the gate Connected without an
\* error outcome, and a disconnect leaves it Disconnected.
C6_ConnectAlwaysConnects ==
    /\ lastCall = "connectTimeout" =>
          settings.googleCalendarConnected /\ lastError = "none"
    /\ lastCall = "handleDisconnectGoogleCalendar" => ~settings.googleCalendarConnected

\* C6 as amended: a disconnect leaves the gate Disconnected; a completed
\* connect attempt leaves it Connected when the simulated attempt succeeded
\* and Disconnected, with an error outcome, when it failed.
C6_GateFollowsOutcome ==
    /\ lastCall = "handleDisconnectGoogleCalendar" =>
          ~settings.googleCalendarConnected /\ lastError = "none"
    /\ lastCall = "connectTimeout" =>
          (settings.googleCalendarConnected <=> lastError = "none")
    /\ lastCall = "connectTimeout" => lastError \in {"none", "ConnectFailed"}

\* a connect attempt has completed with the failure outcome and the gate
\* is Disconnected
C6_Witness ==
    /\ lastCall = "connectTimeout"
    /\ lastError = "ConnectFailed"
    /\ ~settings.googleCalendarConnected

\* C7: a disconnect leaves the gate Disconnected, and while the gate is
\* Disconnected the page shows the placeholder and exposes no bucket and
\* no event, whatever appointments and tasks exist.
ExposedEvents(render) ==
    UNION {Range(render.buckets[d]) : d \in DOMAIN render.buckets}

C7_DisconnectedExposesNothing ==
    /\ lastCall = "handleDisconnectGoogleCalendar" => ~settings.googleCalendarConnected
    /\ ~settings.googleCalendarConnected =>
          /\ AgendaRender.screen = "connect"
          /\ DOMAIN AgendaRender.buckets = {}
          /\ ExposedEvents(AgendaRender) = {}

\* the gate was opened and has just been closed again while the store
\* holds an appointment and a task that would fill buckets
C7_Witness ==
    /\ lastCall = "handleDisconnectGoogleCalendar"
    /\ ~settings.googleCalendarConnected
    /\ Len(appointments) > 0
    /\ Len(tasks) > 0
    /\ DOMAIN eventsByDate # {}

\* C8: the ordered view of a task's updates is non-decreasing in timestamp,
\* lists updates of equal timestamp in the order they were appended, and
\* holds exactly the updates of the sequence it is computed from.
Position(s, u) == CHOOSE i \in 1..Len(s) : s[i] = u

IsStableOrdering(s, view) ==
    /\ Len(view) = Len(s)
    /\ Range(view) = Range(s)
    /\ \A i, j \in 1..Len(view) :
          i < j =>
            /\ view[i].timestamp <= view[j].timestamp
            /\ view[i].timestamp = view[j].timestamp =>
                  Position(s, view[i]) < Position(s, view[j])

C9_Step ==
    \A size \in FileSizes :
        (selectedTask # NoTask /\ handleFileChange(TRUE, size)) =>
            /\ (size <= 5 * 1024 * 1024) <=>
                  fileReads' = fileReads (+) SetToBag({[taskId |-> selectedTask.id, size |-> size]})
            /\ (size > 5 * 1024 * 1024) <=>
                  (lastError' = "AttachmentTooLarge" /\ fileReads' = fileReads)
            /\ tasks' = tasks
            /\ \A read \in BagToSet(fileReads') : read.size <= 5 * 1024 * 1024
            /\ \A i \in 1..Len(tasks') : \A j \in 1..Len(tasks'[i].updates) :
                  tasks'[i].updates[j].attachmentSize <= 5 * 1024 * 1024

C9_AcceptedIffWithinLimit == [][C9_Step]_vars

\* a file of exactly 5 MiB was accepted and is being read, and a file of
\* 5 MiB + 1 byte has just been rejected
C9_Witness ==
    /\ lastCall = "handleFileChange"
    /\ lastError = "AttachmentTooLarge"
    /\ \E read \in BagToSet(fileReads) : read.size = 5 * 1024 * 1024

\* C10: a listed task is flagged overdue iff the calendar day of its due
\* date is before the current calendar day and it is not Done, whatever
\* the time of day of the due date and of the clock.
C10_OverdueByCalendarDay ==
    \A view \in Views, filter \in Filters :
        \A task \in Range(filteredTasks(view, filter)) :
            isOverdue(task) <=>
                /\ toDateString(task.dueDate) < toDateString(now)
                /\ task.status # "CONCLUIDA"

\* later in the current day than its start: a Pending task due yesterday
\* (overdue), a Pending task due today at an earlier time (not overdue) and
\* a Done task due yesterday (not overdue) are listed
C10_Witness ==
    /\ today < now
    /\ \E t \in Range(tasks) :
          t.status = "PENDENTE" /\ toDateString(t.dueDate) < toDateString(now) /\ isOverdue(t)
    /\ \E t \in Range(tasks) :
          t.status = "PENDENTE" /\ t.dueDate < now /\ t.dueDate >= today /\ ~isOverdue(t)
    /\ \E t \in Range(tasks) :
          t.status = "CONCLUIDA" /\ toDateString(t.dueDate) < toDateString(now) /\ ~isOverdue(t)

\* C11: a toggleArchive issued for an entity that is not Trashed flips its
\* isArchived, sets archivedAt when the entity becomes archived and clears
\* it when it stops being archived, and changes no other field, no other
\* entity and nothing else of the store; issued for a Trashed entity it is
\* rejected with PreconditionViolation and the whole store is unchanged.
ToggleArchiveEffect(coll, coll2, id) ==
    IF Has(coll, id) /\ ~Get(coll, id).isDeleted
    THEN /\ Ids(coll2) = Ids(coll)
         /\ Len(coll2) = Len(coll)
         /\ Get(coll2, id).isArchived = ~Get(coll, id).isArchived
         /\ Get(coll2, id).isArchived <=> Get(coll2, id).archivedAt # NoTime
         /\ [Get(coll2, id) EXCEPT !.isArchived = Get(coll, id).isArchived,
                                   !.archivedAt = Get(coll, id).archivedAt]
               = Get(coll, id)
         /\ \A j \in Ids(coll) \ {id} : SameEntity(coll, coll2, j)
         /\ lastError' = "none"
    ELSE /\ coll2 = coll
         /\ lastError' = "PreconditionViolation"

C11_Step ==
    /\ \A id \in 1..MaxEntities :
          handleToggleArchive(id) =>
             /\ ToggleArchiveEffect(cases, cases', id)
             /\ UNCHANGED <<tasks, appointments, settings>>
    /\ \A id \in 1..MaxEntities :
          toggleTaskArchive(id) =>
             /\ ToggleArchiveEffect(tasks, tasks', id)
             /\ UNCHANGED <<cases, appointments, settings>>

C11_ToggleArchiveRejectedInTrash == [][C11_Step]_vars

\* the only case of the store was archived, then moved to the trash, and a
\* toggleArchive issued for it has just been rejected: it is still archived
\* and still Trashed
C11_Witness ==
    /\ lastCall = "toggleCaseArchive"
    /\ lastError = "PreconditionViolation"
    /\ Len(cases) = 1
    /\ cases[1].isDeleted
    /\ cases[1].isArchived
    /\ cases[1].archivedAt # NoTime

\* C12: every softDelete* and permanentlyDelete* call that reaches the
\* store, for tasks and for cases, is made by a handler whose window.confirm
\* was answered yes, and a declined confirmation leaves the store unchanged.
DeleteCallIssued ==
    \E id \in 1..MaxEntities :
        \/ softDeleteTask(id)
        \/ softDeleteCase(id)
        \/ permanentlyDeleteTask(id)
        \/ permanentlyDeleteCase(id)

ConfirmedDelete ==
    \E id \in 1..MaxEntities :
        \/ TasksPage_handleSoftDelete(id, TRUE)
        \/ CasesPage_handleSoftDelete(id, TRUE)
        \/ handlePermanentDelete(id, TRUE)

C12_Step ==
    /\ DeleteCallIssued => ConfirmedDelete
    /\ \A id \in 1..MaxEntities :
          ( \/ TasksPage_handleSoftDelete(id, FALSE)
            \/ CasesPage_handleSoftDelete(id, FALSE)
            \/ handlePermanentDelete(id, FALSE) ) => UNCHANGED storeVars

C12_EveryDeleteConfirmed == [][C12_Step]_vars

\* C13: an upload rejected for being larger than 5 MiB appends no Update to
\* any task and starts no read of the file: the handler returns with
\* AttachmentTooLarge while the tasks, the update ids and the reads in
\* flight are as they were, so no read of an oversize file is ever in
\* flight and none ever completes into an Update.
C13_Step ==
    /\ \A size \in FileSizes :
          (selectedTask # NoTask /\ size > 5 * 1024 * 1024 /\ handleFileChange(TRUE, size)) =>
              /\ lastError' = "AttachmentTooLarge"
              /\ tasks' = tasks
              /\ idCount' = idCount
              /\ fileReads' = fileReads
    /\ (lastCall' = "handleFileChange" /\ lastError' = "AttachmentTooLarge") =>
          tasks' = tasks /\ fileReads' = fileReads
    /\ \A read \in BagToSet(fileReads) :
          readerLoadEnd(read) => read.size <= 5 * 1024 * 1024

C13_RejectedUploadNeverRead == [][C13_Step]_vars

\* a file of 5 MiB + 1 byte has just been rejected for the selected task,
\* which already has two updates, one of them an attachment; no read is in
\* flight
C13_Witness ==
    /\ lastCall = "handleFileChange"
    /\ lastError = "AttachmentTooLarge"
    /\ fileReads = EmptyBag
    /\ selectedTask # NoTask
    /\ Len(Get(tasks, selectedTask.id).updates) = 2
    /\ \E u \in Range(Get(tasks, selectedTask.id).updates) : u.attachmentSize # NoAttachment

\* C14: the bucket map is a partition of the unified events by calendar
\* day: every appointment, and every task that is Active and not Done,
\* yields exactly one event; every event is at exactly one position of the
\* bucket map, in the bucket keyed by the calendar day of its date; the
\* buckets hold nothing but the events, each once, and there is no empty
\* bucket; an appointment's event carries its appointmentType and date, a
\* task's event the task's own type (Tarefa or Prazo) and its dueDate.
EventsOf(events, kind, id) ==
    {i \in 1..Len(events) : events[i].original = [kind |-> kind, id |-> id]}

BucketSlots(buckets, e) ==
    UNION {{<<d, i>> : i \in {j \in 1..Len(buckets[d]) : buckets[d][j] = e}} :
              d \in DOMAIN buckets}

AllSlots(buckets) ==
    UNION {{<<d, i>> : i \in 1..Len(buckets[d])} : d \in DOMAIN buckets}

C14_BucketsPartitionEvents ==
    LET events == unifiedEvents
        buckets == eventsByDate
    IN /\ \A a \in Range(appointments) :
             Cardinality(EventsOf(events, "appointment", a.id)) = 1
       /\ \A t \in Range(tasks) :
             (IsActive(t) /\ t.status # "CONCLUIDA") =>
                Cardinality(EventsOf(events, "task", t.id)) = 1
       /\ \A i \in 1..Len(events) :
             LET e == events[i]
                 slots == BucketSlots(buckets, e)
             IN /\ Cardinality(slots) = 1
                /\ \A slot \in slots : slot[1] = toDateString(e.date)
                /\ e.original.kind = "appointment" =>
                       /\ e.type = Get(appointments, e.original.id).appointmentType
                       /\ e.date = Get(appointments, e.original.id).date
                /\ e.original.kind = "task" =>
                       /\ e.type = Get(tasks, e.original.id).type
                       /\ e.type \in {"Tarefa", "Prazo"}
                       /\ e.date = Get(tasks, e.original.id).dueDate
       /\ Cardinality(AllSlots(buckets)) = Len(events)
       /\ \A slot \in AllSlots(buckets) : buckets[slot[1]][slot[2]] \in Range(events)
       /\ \A d \in DOMAIN buckets : buckets[d] # <<>>
       /\ \A i, j \in 1..Len(events) :
             toDateString(events[i].date) = toDateString(events[j].date) =>
                \E d \in DOMAIN buckets :
                    {events[i], events[j]} \subseteq Range(buckets[d])

\* an appointment and a later Active Pending deadline of the same calendar
\* day are the two events, and they share the one bucket of the map
C14_Witness ==
    /\ Len(unifiedEvents) = 2
    /\ \E a \in Range(appointments), t \in Range(tasks) :
          /\ IsActive(t) /\ t.status = "PENDENTE" /\ t.type = "Prazo"
          /\ a.date < t.dueDate
          /\ toDateString(a.date) = toDateString(t.dueDate)
          /\ DOMAIN eventsByDate = {toDateString(a.date)}
          /\ Len(eventsByDate[toDateString(a.date)]) = 2

\* C15: on the tasks page restoreTask and permanentlyDeleteTask are issued
\* only for a task that is Trashed in the store at the moment of the call:
\* the restore and permanent-delete buttons of the detail panel are never
\* pressed for a task that has since been restored or permanently deleted.
C15_Step ==
    (TasksPage_restoreButton \/ TasksPage_permanentlyDeleteButton) =>
        /\ Has(tasks, selectedTask.id)
        /\ IsTrashed(Get(tasks, selectedTask.id))

C15_TrashedActionsOnlyForTrashed == [][C15_Step]_vars

\* C16: once a disconnect has set googleCalendarConnected to false it stays
\* false until a new connect attempt is started: the step that follows a
\* disconnect, which at the earliest starts the new attempt, never sets the
\* gate back to Connected, so no callback of an attempt started before the
\* disconnect reopens it.
C16_Step ==
    (lastCall = "handleDisconnectGoogleCalendar" /\ ~settings.googleCalendarConnected) =>
        ~settings'.googleCalendarConnected

C16_DisconnectHoldsUntilNewAttempt == [][C16_Step]_vars

====
